---- MODULE Spec2Model ----
(***************************************************************************)
(* Model of utils/message_utils.py: MessageUtils.format_history_for_llm,   *)
(* MessageUtils.outline_message_list and _safe_isinstance.                 *)
(*                                                                         *)
(* Text is a sequence of string pieces; the string it stands for is the    *)
(* concatenation of its pieces, and \o is Python's +=.  The brackets of a  *)
(* placeholder are pieces of their own ("[" and "]").  An empty Python     *)
(* string contributes no piece.  The fixed Chinese literals of the source  *)
(* are written in ASCII (pinyin); each is defined once below, next to the  *)
(* literal of the source it stands for.                                    *)
(*                                                                         *)
(* A Python value is a record [t, s]: t its type ("str", "int", "None", or *)
(* "absent" for an attribute the object does not have), s its str().       *)
(***************************************************************************)
EXTENDS Integers, Sequences, FiniteSets, TLC

\* ---------------------------------------------------------------- bounds
\* longest history handed to format_history_for_llm
MaxHist == 2
\* largest max_messages tried (0..MaxMax)
MaxMax == 2
\* longest segment list (a message's content, a quoted chain)
MaxSegs == 2
\* deepest nesting of Reply chains
MaxNest == 2

\* ---------------------------------------------------------- Python values
PyNone == [t |-> "None", s |-> "None"]
PyAbsent == [t |-> "absent", s |-> ""]
PyStr(x) == [t |-> "str", s |-> x]
PyInt(digits) == [t |-> "int", s |-> digits]

\* bool(v): None, "" and 0 are false
Truthy(v) == \/ v.t = "str" /\ v.s # ""
             \/ v.t = "int" /\ v.s # "0"

\* f"{v}": str(v); str(None) is "None"
Fmt(v) == IF v.s = "" THEN <<>> ELSE <<v.s>>

\* a literal string as text
Lit(x) == IF x = "" THEN <<>> ELSE <<x>>

\* ------------------------------------------------------- source literals
\* "未知用户"
UNKNOWN_USER == "WeiZhiYongHu"
\* "unknown"
UNKNOWN_ID == "unknown"
\* "未知时间"
UNKNOWN_TIME == "WeiZhiShiJian"
\* "发送者: "
L_SENDER == "FaSongZhe: "
\* "时间: "
L_TIME == "ShiJian: "
\* "内容: "
L_CONTENT == "NeiRong: "
\* divider = "\n" + "-" + "\n"
divider == "\n-\n"
\* "[图片: 文件不存在]"
IMAGE_MISSING == <<"[", "TuPian: WenJianBuCunZai", "]">>
\* "[图片]"
IMAGE_BARE == <<"[", "TuPian", "]">>
\* "[JSON消息]"
JSON_GENERIC == <<"[", "JSON XiaoXi", "]">>
\* "[回复消息]"
REPLY_GENERIC == <<"[", "HuiFu XiaoXi", "]">>

\* --------------------------------------------------------------- segments
\* an image reference: t as for a Python value, c its characters
NoRef == [t |-> "None", c |-> <<>>]
Ref(chars) == [t |-> "str", c |-> chars]
\* Json.data: t as for a Python value, doc the JSON document the string holds
NoData == [t |-> "absent", doc |-> [k |-> "invalid", keys |-> {}, chars |-> <<>>,
                                    prompt |-> PyAbsent, app |-> PyAbsent]]

\* a message component: cls is its class, the other fields its attributes
Seg0 == [cls |-> "Unknown", type |-> PyAbsent, text |-> PyAbsent,
         file |-> NoRef, url |-> NoRef, id |-> PyAbsent, qq |-> PyAbsent,
         name |-> PyAbsent, title |-> PyAbsent, content |-> PyAbsent,
         data |-> NoData, source |-> PyAbsent, chain |-> <<>>,
         message_str |-> PyAbsent, sender_nickname |-> PyAbsent,
         sender_id |-> PyAbsent]

\* classes the dispatch names directly (isinstance(i, Plain), ...)
CoreClasses == {"Plain", "Image", "Face", "At", "AtAll", "Record", "Video",
                "Share", "Contact", "Location", "Music", "File", "Reply"}

\* _safe_isinstance: type_mapping, lower-case type tag -> class name
type_mapping == [anonymous |-> "Anonymous", rps |-> "RPS", dice |-> "Dice",
                 shake |-> "Shake", redbag |-> "RedBag", poke |-> "Poke",
                 forward |-> "Forward", node |-> "Node", nodes |-> "Nodes",
                 xml |-> "Xml", json |-> "Json", cardimage |-> "CardImage",
                 tts |-> "TTS", wechatemoji |-> "WechatEmoji"]

\* classes looked up by name in globals()
OptionalClasses == {type_mapping[k] : k \in DOMAIN type_mapping}

\* str.lower() on the type tags that occur; the others are lower-case already
UpperTags == [RPS |-> "rps", Dice |-> "dice", Shake |-> "shake",
              Anonymous |-> "anonymous", RedBag |-> "redbag", Poke |-> "poke",
              Forward |-> "forward", Node |-> "node", Nodes |-> "nodes",
              Xml |-> "xml", Json |-> "json", JSON |-> "json",
              CardImage |-> "cardimage", TTS |-> "tts",
              WechatEmoji |-> "wechatemoji", Share |-> "share",
              Location |-> "location", Music |-> "music", Widget |-> "widget"]
lower(x) == IF x \in DOMAIN UpperTags THEN UpperTags[x] ELSE x

\* _safe_isinstance(obj, class_name), names being the names bound in the
\* module's globals(): "True", "False", or the exception raised
_safe_isinstance(obj, class_name, names) ==
    IF obj.type.t # "absent" /\ obj.type.t # "str"
    THEN "AttributeError"
    ELSE IF /\ obj.type.t = "str"
            /\ lower(obj.type.s) \in DOMAIN type_mapping
            /\ type_mapping[lower(obj.type.s)] = class_name
         THEN "True"
         ELSE IF class_name \in names /\ obj.cls = class_name
              THEN "True" ELSE "False"

\* the elif chain of outline_message_list, in order
Checks == <<[how |-> "isinstance", cls |-> "Plain"],
            [how |-> "isinstance", cls |-> "Image"],
            [how |-> "isinstance", cls |-> "Face"],
            [how |-> "isinstance", cls |-> "At"],
            [how |-> "isinstance", cls |-> "AtAll"],
            [how |-> "isinstance", cls |-> "Record"],
            [how |-> "isinstance", cls |-> "Video"],
            [how |-> "safe", cls |-> "RPS"],
            [how |-> "safe", cls |-> "Dice"],
            [how |-> "safe", cls |-> "Shake"],
            [how |-> "safe", cls |-> "Anonymous"],
            [how |-> "isinstance", cls |-> "Share"],
            [how |-> "isinstance", cls |-> "Contact"],
            [how |-> "isinstance", cls |-> "Location"],
            [how |-> "isinstance", cls |-> "Music"],
            [how |-> "safe", cls |-> "RedBag"],
            [how |-> "safe", cls |-> "Poke"],
            [how |-> "safe", cls |-> "Forward"],
            [how |-> "safe", cls |-> "Node"],
            [how |-> "safe", cls |-> "Nodes"],
            [how |-> "safe", cls |-> "Xml"],
            [how |-> "safe", cls |-> "Json"],
            [how |-> "safe", cls |-> "CardImage"],
            [how |-> "safe", cls |-> "TTS"],
            [how |-> "isinstance", cls |-> "File"],
            [how |-> "safe", cls |-> "WechatEmoji"],
            [how |-> "isinstance", cls |-> "Reply"]>>

\* the branch taken for segment i, trying the checks from the k-th on:
\* the class of the first check that answers True, "else" when none does,
\* "raise" when a check raises
RECURSIVE Dispatch(_, _, _)
Dispatch(i, names, k) ==
    IF k > Len(Checks) THEN "else"
    ELSE LET c == Checks[k]
             r == IF c.how = "isinstance"
                  THEN (IF i.cls = c.cls THEN "True" ELSE "False")
                  ELSE _safe_isinstance(i, c.cls, names)
         IN  IF r = "True" THEN c.cls
             ELSE IF r = "False" THEN Dispatch(i, names, k + 1)
             ELSE "raise"

Branch(i, names) == Dispatch(i, names, 1)

\* ----------------------------------------------------------------- images
\* "file:///"
FILE_SCHEME == <<"f", "i", "l", "e", ":", "/", "/", "/">>
\* image[8:]
SCHEME_LEN == 8

\* str.startswith
startswith(x, prefix) ==
    Len(x) >= Len(prefix) /\ SubSeq(x, 1, Len(prefix)) = prefix

RefTruthy(r) == r.t = "str" /\ r.c # <<>>

\* ImageRef preferring the url
ImageRef_url_first(i) == IF RefTruthy(i.url) THEN i.url ELSE i.file

\* i.file if i.file else i.url
ImageRef(i) == IF RefTruthy(i.file) THEN i.file ELSE i.url

\* ImagePlan without the os.path.exists check of line 146
ImagePlan_unchecked(i, fs) ==
    LET image == ImageRef(i) IN
    IF ~RefTruthy(image) THEN [act |-> "bare", arg |-> <<>>]
    ELSE IF startswith(image.c, FILE_SCHEME)
         THEN [act |-> "call", arg |-> SubSeq(image.c, SCHEME_LEN + 1, Len(image.c))]
         ELSE [act |-> "call", arg |-> image.c]

\* what the Image branch does before any await, fs being the paths that
\* exist: "bare" (no reference: "[图片]"), "missing" (the file:/// path does
\* not exist: "[图片: 文件不存在]" and continue) or "call" (await
\* generate_image_caption(arg))
ImagePlan(i, fs) ==
    LET image == ImageRef(i) IN
    IF ~RefTruthy(image) THEN [act |-> "bare", arg |-> <<>>]
    ELSE IF startswith(image.c, FILE_SCHEME)
         THEN LET image_path == SubSeq(image.c, SCHEME_LEN + 1, Len(image.c)) IN
              IF image_path \notin fs
              THEN [act |-> "missing", arg |-> image_path]
              ELSE [act |-> "call", arg |-> image_path]
         ELSE [act |-> "call", arg |-> image.c]

\* what generate_image_caption may do: return a caption, "" or None, or raise
Returned(v) == [raised |-> FALSE, caption |-> v]
Raised == [raised |-> TRUE, caption |-> PyNone]
\* "一只猫"
CaptionOutcomes == {Returned(PyStr("YiZhiMao")), Returned(PyStr("")),
                    Returned(PyNone), Raised}

\* CaptionFragment with the except arm of line 162 appending nothing
CaptionFragment_dropped(out) ==
    IF out.raised THEN <<>>
    ELSE IF Truthy(out.caption)
         THEN <<"[", "TuPian: ">> \o Fmt(out.caption) \o <<"]">>
         ELSE IMAGE_BARE

\* the fragment once the captioning call has settled
CaptionFragment(out) ==
    IF out.raised THEN IMAGE_BARE
    ELSE IF Truthy(out.caption)
         THEN <<"[", "TuPian: ">> \o Fmt(out.caption) \o <<"]">>
         ELSE IMAGE_BARE

\* ------------------------------------------------------------------- JSON
\* the characters of the two keys looked for
KeyChars(key) == IF key = "prompt" THEN <<"p", "r", "o", "m", "p", "t">>
                 ELSE <<"a", "p", "p">>

IsSubstr(needle, hay) ==
    \E k \in 0..(Len(hay) - Len(needle)) :
        SubSeq(hay, k + 1, k + Len(needle)) = needle

\* key in json_data: membership of a dict's keys or a list's items, substring
\* of a string, TypeError on a number, null or boolean
In(key, J) ==
    IF J.k \in {"object", "list"}
    THEN (IF key \in J.keys THEN "True" ELSE "False")
    ELSE IF J.k = "string"
         THEN (IF IsSubstr(KeyChars(key), J.chars) THEN "True" ELSE "False")
         ELSE "TypeError"

\* json_data.get(key, ''): only a dict has get
Get(key, J) ==
    IF J.k # "object" THEN [raised |-> TRUE, v |-> PyNone]
    ELSE [raised |-> FALSE, v |-> IF key = "prompt" THEN J.prompt ELSE J.app]

\* JsonFragment looking for "app" before "prompt"
JsonFragment_swapped(i) ==
    LET d == i.data IN
    IF d.t # "str" THEN JSON_GENERIC
    ELSE IF d.doc.k = "invalid" THEN JSON_GENERIC
    ELSE IF In("app", d.doc) = "TypeError" THEN JSON_GENERIC
    ELSE IF In("app", d.doc) = "True"
         THEN (IF Get("app", d.doc).raised THEN JSON_GENERIC
               ELSE <<"[", "XiaoChengXu:">> \o Fmt(Get("app", d.doc).v) \o <<"]">>)
    ELSE IF In("prompt", d.doc) = "True"
         THEN (IF Get("prompt", d.doc).raised THEN JSON_GENERIC
               ELSE <<"[", "JSON KaPian:">> \o Fmt(Get("prompt", d.doc).v) \o <<"]">>)
    ELSE JSON_GENERIC

\* the Json branch, "[JSON卡片:...]" or "[小程序:...]"; every exception inside
\* the try gives "[JSON消息]"
JsonFragment(i) ==
    LET d == i.data IN
    IF d.t # "str" THEN JSON_GENERIC
    ELSE IF d.doc.k = "invalid" THEN JSON_GENERIC
    ELSE IF In("prompt", d.doc) = "TypeError" THEN JSON_GENERIC
    ELSE IF In("prompt", d.doc) = "True"
         THEN (IF Get("prompt", d.doc).raised THEN JSON_GENERIC
               ELSE <<"[", "JSON KaPian:">> \o Fmt(Get("prompt", d.doc).v) \o <<"]">>)
    ELSE IF In("app", d.doc) = "True"
         THEN (IF Get("app", d.doc).raised THEN JSON_GENERIC
               ELSE <<"[", "XiaoChengXu:">> \o Fmt(Get("app", d.doc).v) \o <<"]">>)
    ELSE JSON_GENERIC

\* ------------------------------------------------------------------ Reply
\* sender_info leaving the id out when the nickname is there
sender_info_drop_id(i) ==
    IF Truthy(i.sender_nickname)
    THEN Fmt(i.sender_nickname)
    ELSE Fmt(i.sender_id)

\* f"{i.sender_nickname}({i.sender_id})" if i.sender_nickname else f"{i.sender_id}"
sender_info(i) ==
    IF Truthy(i.sender_nickname)
    THEN Fmt(i.sender_nickname) \o <<"(">> \o Fmt(i.sender_id) \o <<")">>
    ELSE Fmt(i.sender_id)

\* which arm of the Reply branch is taken
ReplyArm(i) ==
    IF i.chain # <<>> THEN "chain"
    ELSE IF Truthy(i.message_str) THEN "text"
    ELSE IF Truthy(i.sender_nickname) \/ Truthy(i.sender_id) THEN "sender"
    ELSE "generic"

\* "[回复(<sender_info>: <reply_content>)]", reply_content the awaited outline
ReplyChainFragment(i, reply_content) ==
    <<"[", "HuiFu(">> \o sender_info(i) \o <<": ">> \o reply_content \o <<")", "]">>

\* the arms of the Reply branch that await nothing
ReplyFragment(i) ==
    IF ReplyArm(i) = "text"
    THEN <<"[", "HuiFu(">> \o sender_info(i) \o <<": ">> \o Fmt(i.message_str) \o <<")", "]">>
    ELSE IF ReplyArm(i) = "sender"
         THEN <<"[", "HuiFu(">> \o sender_info(i) \o <<")", "]">>
         ELSE REPLY_GENERIC

\* ------------------------------------------------- the other placeholders
\* f"[分享:《{i.title}》{i.content if i.content else ''}]"
ShareFragment(i) ==
    <<"[", "FenXiang:", "<<">> \o Fmt(i.title) \o <<">>">>
        \o (IF Truthy(i.content) THEN Fmt(i.content) ELSE <<>>) \o <<"]">>

\* LocationFragment without the parentheses around the content
LocationFragment_bare(i) ==
    <<"[", "WeiZhi:">> \o Fmt(i.title)
        \o (IF Truthy(i.content) THEN Fmt(i.content) ELSE <<>>) \o <<"]">>

\* f"[位置:{i.title}{f'({i.content})' if i.content else ''}]"
LocationFragment(i) ==
    <<"[", "WeiZhi:">> \o Fmt(i.title)
        \o (IF Truthy(i.content) THEN <<"(">> \o Fmt(i.content) \o <<")">> ELSE <<>>)
        \o <<"]">>

\* f"[音乐:{i.title}{f'({i.content})' if i.content else ''}]"
MusicFragment(i) ==
    <<"[", "YinYue:">> \o Fmt(i.title)
        \o (IF Truthy(i.content) THEN <<"(">> \o Fmt(i.content) \o <<")">> ELSE <<>>)
        \o <<"]">>

\* the branches that neither await nor raise, by branch name
Placeholder(i, branch) ==
    CASE branch = "Plain" -> Fmt(i.text)
      \* f"[表情:{i.id}]"
      [] branch = "Face" -> <<"[", "BiaoQing:">> \o Fmt(i.id) \o <<"]">>
      \* f"[At:{i.qq}{f'({i.name})' if i.name else ''}]"
      [] branch = "At" ->
            <<"[", "At:">> \o Fmt(i.qq)
                \o (IF Truthy(i.name) THEN <<"(">> \o Fmt(i.name) \o <<")">> ELSE <<>>)
                \o <<"]">>
      \* "[At:全体成员]"
      [] branch = "AtAll" -> <<"[", "At:QuanTiChengYuan", "]">>
      \* "[语音]"
      [] branch = "Record" -> <<"[", "YuYin", "]">>
      \* "[视频]"
      [] branch = "Video" -> <<"[", "ShiPin", "]">>
      \* "[猜拳]"
      [] branch = "RPS" -> <<"[", "CaiQuan", "]">>
      \* "[骰子]"
      [] branch = "Dice" -> <<"[", "TouZi", "]">>
      \* "[抖一抖]"
      [] branch = "Shake" -> <<"[", "DouYiDou", "]">>
      \* "[匿名]"
      [] branch = "Anonymous" -> <<"[", "NiMing", "]">>
      [] branch = "Share" -> ShareFragment(i)
      \* f"[联系人:{i.id}]"
      [] branch = "Contact" -> <<"[", "LianXiRen:">> \o Fmt(i.id) \o <<"]">>
      [] branch = "Location" -> LocationFragment(i)
      [] branch = "Music" -> MusicFragment(i)
      \* f"[红包:{getattr(i, 'title', '')}]"
      [] branch = "RedBag" -> <<"[", "HongBao:">> \o Fmt(i.title) \o <<"]">>
      \* f"[戳一戳 对:{getattr(i, 'qq', '')}]"
      [] branch = "Poke" -> <<"[", "ChuoYiChuo Dui:">> \o Fmt(i.qq) \o <<"]">>
      \* "[合并转发消息]"
      [] branch \in {"Forward", "Node", "Nodes"} -> <<"[", "HeBingZhuanFa XiaoXi", "]">>
      \* "[XML消息]"
      [] branch = "Xml" -> <<"[", "XML XiaoXi", "]">>
      [] branch = "Json" -> JsonFragment(i)
      \* f"[卡片图片:{getattr(i, 'source', '')}]"
      [] branch = "CardImage" -> <<"[", "KaPianTuPian:">> \o Fmt(i.source) \o <<"]">>
      \* f"[TTS:{getattr(i, 'text', '')}]"
      [] branch = "TTS" -> <<"[", "TTS:">> \o Fmt(i.text) \o <<"]">>
      \* f"[文件:{i.name}]"
      [] branch = "File" -> <<"[", "WenJian:">> \o Fmt(i.name) \o <<"]">>
      \* "[微信表情]"
      [] branch = "WechatEmoji" -> <<"[", "WeiXinBiaoQing", "]">>
      [] branch = "Reply" -> ReplyFragment(i)
      \* f"[{i.type}]"
      [] OTHER -> <<"[">> \o Fmt(i.type) \o <<"]">>

\* one pass of the loop body for segment i, up to its first await:
\*   "frag"    the fragment text is appended
\*   "raise"   an exception leaves outline_message_list
\*   "call"    await generate_image_caption(arg)
\*   "recurse" await outline_message_list(i.chain)
SegmentPlan(i, names, fs) ==
    LET branch == Branch(i, names)
        none == [kind |-> "raise", text |-> <<>>, arg |-> <<>>]
    IN  IF branch = "raise" THEN none
        ELSE IF branch = "Image"
        THEN LET plan == ImagePlan(i, fs) IN
             IF plan.act = "call"
             THEN [kind |-> "call", text |-> <<>>, arg |-> plan.arg]
             ELSE [kind |-> "frag", arg |-> <<>>,
                   text |-> IF plan.act = "missing" THEN IMAGE_MISSING ELSE IMAGE_BARE]
        ELSE IF branch = "Reply" /\ ReplyArm(i) = "chain"
        THEN [kind |-> "recurse", text |-> <<>>, arg |-> <<>>]
        ELSE IF branch = "else" /\ i.type.t = "absent"
        THEN none
        ELSE [kind |-> "frag", text |-> Placeholder(i, branch), arg |-> <<>>]

\* --------------------------------------------------------------- messages
\* a message: sender.t is "absent" (no such attribute), "None" or "obj";
\* timestamp is a Python value; message.t is "absent", "None" or "list"
NoSender == [t |-> "absent", nickname |-> PyAbsent, user_id |-> PyAbsent]
Sender(nickname, user_id) == [t |-> "obj", nickname |-> nickname, user_id |-> user_id]
Content(segs) == [t |-> "list", segs |-> segs]
NoContent == [t |-> "absent", segs |-> <<>>]

\* datetime.fromtimestamp(ts).strftime("%Y-%m-%d %H:%M:%S") for the epoch
\* seconds it can convert; any other value raises
strftime == ("1700000000" :> "2023-11-14 22:13:20")

\* lines 82-86
sender_name(msg) ==
    IF msg.sender.t = "obj" /\ Truthy(msg.sender.nickname)
    THEN Fmt(msg.sender.nickname) ELSE <<UNKNOWN_USER>>

sender_id(msg) ==
    IF msg.sender.t = "obj" /\ Truthy(msg.sender.user_id)
    THEN Fmt(msg.sender.user_id) ELSE <<UNKNOWN_ID>>

\* lines 89-96: the bare except keeps "未知时间"
send_time(msg) ==
    IF /\ Truthy(msg.timestamp)
       /\ msg.timestamp.t = "int"
       /\ msg.timestamp.s \in DOMAIN strftime
    THEN <<strftime[msg.timestamp.s]>> ELSE <<UNKNOWN_TIME>>

\* hasattr(msg, "message") and msg.message
HasContent(msg) == msg.message.t = "list" /\ msg.message.segs # <<>>

\* lines 102-104
message_text(msg, message_content) ==
    <<L_SENDER>> \o sender_name(msg) \o <<" (ID: ">> \o sender_id(msg) \o <<")\n">>
        \o <<L_TIME>> \o send_time(msg) \o <<"\n">>
        \o <<L_CONTENT>> \o message_content

\* x[k:] for a Python list
SliceFrom(x, k) ==
    LET start == IF k < 0
                 THEN (IF Len(x) + k < 0 THEN 0 ELSE Len(x) + k)
                 ELSE (IF k > Len(x) THEN Len(x) ELSE k)
    IN  SubSeq(x, start + 1, Len(x))

\* lines 74-75
Truncate(history, max) ==
    IF Len(history) > max THEN SliceFrom(history, 0 - max) ELSE history

\* NeedsDivider after the last message as well
NeedsDivider_always(i, n) == i < n

\* line 110, idx counted from 0
NeedsDivider(i, n) == i < n - 1

\* ----------------------------------------------------------------- inputs
\* constructors of the framework's components
Plain(x) == [Seg0 EXCEPT !.cls = "Plain", !.type = PyStr("Plain"), !.text = PyStr(x)]
Image(file, url) ==
    [Seg0 EXCEPT !.cls = "Image", !.type = PyStr("Image"), !.file = file, !.url = url]
Face(id) == [Seg0 EXCEPT !.cls = "Face", !.type = PyStr("Face"), !.id = id]
At(qq, name) == [Seg0 EXCEPT !.cls = "At", !.type = PyStr("At"), !.qq = qq, !.name = name]
Simple(cls) == [Seg0 EXCEPT !.cls = cls, !.type = PyStr(cls)]
Card(cls, title, content) ==
    [Seg0 EXCEPT !.cls = cls, !.type = PyStr(cls), !.title = title, !.content = content]
Contact(id) == [Seg0 EXCEPT !.cls = "Contact", !.type = PyStr("Contact"), !.id = id]
File(name) == [Seg0 EXCEPT !.cls = "File", !.type = PyStr("File"), !.name = name]
Reply(chain, message_str, nickname, id) ==
    [Seg0 EXCEPT !.cls = "Reply", !.type = PyStr("Reply"), !.chain = chain,
                 !.message_str = message_str, !.sender_nickname = nickname,
                 !.sender_id = id]
\* an object of a class this module does not know, with a type attribute
Duck(type) == [Seg0 EXCEPT !.type = type]

\* JSON documents
JDoc(k) == [k |-> k, keys |-> {}, chars |-> <<>>, prompt |-> PyAbsent, app |-> PyAbsent]
JObject(keys, prompt, app) ==
    [k |-> "object", keys |-> keys, chars |-> <<>>, prompt |-> prompt, app |-> app]
JString(chars) == [JDoc("string") EXCEPT !.chars = chars]
JList(items) == [JDoc("list") EXCEPT !.keys = items]
JsonDocs ==
    { JDoc("invalid"), JDoc("number"), JDoc("null"), JDoc("bool"),
      JObject({"prompt"}, PyStr("draw a cat"), PyAbsent),
      JObject({"app"}, PyAbsent, PyStr("mini")),
      JObject({"prompt", "app"}, PyStr("draw a cat"), PyStr("mini")),
      JObject({"prompt"}, PyNone, PyAbsent),
      JObject({"x"}, PyAbsent, PyAbsent),
      JObject({}, PyAbsent, PyAbsent),
      JString(<<"p", "r", "o", "m", "p", "t">>),
      JString(<<"a", "p", "p", "l", "e">>),
      JString(<<"x">>),
      JList({"prompt"}), JList({"app"}), JList({}) }
JsonData == {[t |-> "str", doc |-> d] : d \in JsonDocs}
              \cup {NoData, [NoData EXCEPT !.t = "None"], [NoData EXCEPT !.t = "dict"]}

\* image references: "file:///a" exists, "file:///b" does not; the captioning
\* client answers "u" with a caption and may do anything on the others
ExistingFiles == {<<"a">>}
FileA == Ref(FILE_SCHEME \o <<"a">>)
FileB == Ref(FILE_SCHEME \o <<"b">>)
UrlU == Ref(<<"u">>)
UrlV == Ref(<<"v">>)
Images ==
    { Image(FileA, NoRef), Image(FileB, NoRef), Image(FileB, UrlV),
      Image(NoRef, UrlV), Image(Ref(<<>>), UrlV), Image(NoRef, FileB),
      Image(NoRef, FileA), Image(FileA, FileB), Image(NoRef, NoRef),
      Image(Ref(<<>>), Ref(<<>>)) }

\* the Reply segments without a quoted chain
Senders == {<<PyStr("Bob"), PyInt("42")>>, <<PyStr(""), PyInt("42")>>,
            <<PyStr("Bob"), PyInt("0")>>, <<PyStr(""), PyInt("0")>>,
            <<PyNone, PyNone>>}
PlainReplies ==
    {Reply(<<>>, m, who[1], who[2]) : m \in {PyStr(""), PyStr("hi")}, who \in Senders}

\* one segment of each shape the dispatch tells apart
BigPool ==
    { Plain("a"), Plain(""), Face(PyInt("1")),
      At(PyInt("7"), PyStr("Amy")), At(PyInt("7"), PyStr("")), At(PyStr("7"), PyNone),
      Simple("AtAll"), Simple("Record"), Simple("Video"),
      Simple("RPS"), Simple("Dice"), Simple("Shake"), Simple("Anonymous"),
      Duck(PyStr("rps")), Duck(PyStr("dice")), Duck(PyStr("shake")),
      Duck(PyStr("anonymous")),
      Card("Share", PyStr("t"), PyStr("c")), Card("Share", PyStr("t"), PyStr("")),
      Card("Share", PyStr("t"), PyNone),
      Contact(PyInt("5")),
      Card("Location", PyStr("t"), PyStr("c")), Card("Location", PyStr("t"), PyStr("")),
      Card("Location", PyStr("t"), PyNone),
      Card("Music", PyStr("t"), PyStr("c")), Card("Music", PyStr("t"), PyStr("")),
      Card("Music", PyStr("t"), PyNone),
      Card("RedBag", PyStr("t"), PyAbsent), Duck(PyStr("redbag")),
      [Simple("Poke") EXCEPT !.qq = PyInt("7")], Duck(PyStr("poke")),
      Simple("Forward"), Simple("Node"), Simple("Nodes"), Simple("Xml"),
      Duck(PyStr("forward")), Duck(PyStr("xml")),
      [Simple("CardImage") EXCEPT !.source = PyStr("src")], Duck(PyStr("cardimage")),
      [Simple("TTS") EXCEPT !.text = PyStr("say")], Duck(PyStr("TTS")),
      File(PyStr("f.txt")), Simple("WechatEmoji"), Duck(PyStr("wechatemoji")),
      Duck(PyStr("widget")), Duck(PyStr("Widget")), Duck(PyStr("")),
      Duck(PyAbsent), Duck(PyNone),
      [Simple("RPS") EXCEPT !.type = PyAbsent],
      [Simple("Json") EXCEPT !.type = PyAbsent] }
      \cup {[Simple("Json") EXCEPT !.data = d] : d \in JsonData}
      \cup {[Duck(PyStr("json")) EXCEPT !.data = d] : d \in JsonData}
      \cup Images \cup PlainReplies

\* the segments put around the one under study
TinyPool == {Plain("a"), Image(NoRef, UrlU)}

\* the lists of at most n segments: one of focus, the others of around
Around(focus, around, n) ==
    UNION { { pre \o <<x>> \o post : x \in focus,
                pre \in [1..a -> around], post \in [1..b -> around] }
            : <<a, b>> \in {ab \in (0..n) \X (0..n) : ab[1] + ab[2] + 1 <= n} }

\* the quoted chains nested at most d deep, and the Reply segments holding them
RECURSIVE Chains(_)
Chains(d) ==
    LET leaves == {Image(NoRef, UrlV), Image(FileB, UrlV)}
        focus == IF d = 0 THEN leaves \cup {Plain("b")}
                 ELSE leaves \cup {Reply(c, PyStr("hi"), PyStr("Bob"), PyInt("42")) :
                                        c \in Chains(d - 1)}
    IN  Around(focus, {Image(NoRef, UrlU)}, MaxSegs)

ChainReplies ==
    IF MaxNest = 0 THEN {}
    ELSE {Reply(c, w[1], w[2], w[3]) : c \in Chains(MaxNest - 1),
              w \in {<<PyStr("hi"), PyStr("Bob"), PyInt("42")>>,
                     <<PyStr(""), PyStr(""), PyInt("0")>>}}

\* the segment lists handed to outline_message_list
MessageLists ==
    {<<>>} \cup Around(BigPool, TinyPool, MaxSegs)
           \cup Around(ChainReplies, {Image(NoRef, UrlU)}, MaxSegs)

\* the messages: every shape of sender, timestamp and content
Msg(sender, timestamp, message) ==
    [sender |-> sender, timestamp |-> timestamp, message |-> message]
MsgA == Msg(Sender(PyStr("Ann"), PyStr("1001")), PyInt("1700000000"),
            Content(<<Plain("a")>>))
MsgB == Msg(Sender(PyStr("Ben"), PyStr("1002")), PyInt("1700000000"),
            Content(<<Image(NoRef, UrlU)>>))
MsgPool ==
    { Msg(sd, MsgA.timestamp, MsgA.message) :
        sd \in {NoSender, [NoSender EXCEPT !.t = "None"],
                Sender(PyNone, PyNone), Sender(PyStr(""), PyStr("")),
                Sender(PyStr("Cy"), PyNone), Sender(PyNone, PyInt("1003"))} }
    \cup { Msg(MsgA.sender, ts, MsgA.message) :
        ts \in {PyAbsent, PyNone, PyInt("0"), PyInt("1700000000"),
                PyInt("99999999999999999999"), PyStr("yesterday")} }
    \cup { Msg(MsgA.sender, MsgA.timestamp, c) :
        c \in {NoContent, [NoContent EXCEPT !.t = "None"], Content(<<>>),
               Content(<<Plain("b"), Image(NoRef, UrlV)>>),
               Content(<<Image(FileB, NoRef), Plain("b")>>),
               Content(<<Reply(<<Image(NoRef, UrlV)>>, PyStr(""), PyStr("Bob"), PyInt("42"))>>),
               Content(<<Plain("b"), Duck(PyAbsent)>>),
               Content(<<Duck(PyStr("widget"))>>)} }

\* the histories handed to format_history_for_llm
Histories == {<<>>} \cup Around(MsgPool, {MsgA, MsgB}, MaxHist)

\* ------------------------------------------------------------------ state
VARIABLES
    entry,            \* the operation called: "format" or "outline"
    history_messages, \* format_history_for_llm's argument
    max_messages,     \* format_history_for_llm's argument
    message_list,     \* outline_message_list's argument (entry = "outline")
    module_globals,   \* the class names bound in the module's globals()
    files,            \* the paths os.path.exists answers True for
    pc,               \* "format", "loop", "append", "outline", "caption",
                      \* "returned", "raised"
    hist,             \* history_messages after lines 74-75
    idx,              \* the loop index of line 80
    formatted_text,   \* line 77
    message_content,  \* line 99
    stack,            \* the running outline_message_list calls, innermost
                      \* last: [list, pos, outline]
    calls,            \* the arguments generate_image_caption was called with
    inflight,         \* the captioning calls that have not settled
    result,           \* the text returned to the caller
    exc,              \* the exception that left the operation, and the
                      \* segment whose handling raised it
    done,             \* history: one entry per segment whose fragment was
                      \* appended, in the order of appending
    rendered          \* history: the messages whose block was appended

vars == <<entry, history_messages, max_messages, message_list, module_globals,
          files, pc, hist, idx, formatted_text, message_content, stack, calls,
          inflight, result, exc, done, rendered>>

inputs == <<entry, history_messages, max_messages, message_list, module_globals,
            files>>
format_locals == <<hist, idx, formatted_text, rendered>>

NoOutcome == [raised |-> FALSE, caption |-> PyAbsent]
NoExc == [type |-> "none", seg |-> Seg0]

Start ==
    /\ files = ExistingFiles
    /\ hist = <<>>
    /\ idx = 0
    /\ formatted_text = <<>>
    /\ message_content = <<>>
    /\ calls = <<>>
    /\ inflight = 0
    /\ result = <<>>
    /\ exc = NoExc
    /\ done = <<>>
    /\ rendered = <<>>

InitFormat ==
    /\ entry = "format"
    /\ history_messages \in Histories
    /\ max_messages \in 0..MaxMax
    /\ message_list = <<>>
    /\ module_globals = CoreClasses \cup OptionalClasses
    /\ pc = "format"
    /\ stack = <<>>
    /\ Start

InitOutline ==
    /\ entry = "outline"
    /\ history_messages = <<>>
    /\ max_messages = 0
    /\ message_list \in MessageLists
    /\ module_globals \in {CoreClasses, CoreClasses \cup OptionalClasses}
    /\ pc = "outline"
    /\ stack = <<[list |-> message_list, pos |-> 1, outline |-> <<>>]>>
    /\ Start

Init == InitFormat \/ InitOutline

\* ------------------------------------------------------ the captioning client
\* ImageCaptionUtils.generate_image_caption(image): what it may do for a
\* reference; "u" is an image it can caption
generate_image_caption(image) ==
    IF image = <<"u">> THEN {Returned(PyStr("YiZhiMao"))} ELSE CaptionOutcomes

\* ---------------------------------------------------------------- actions
top == stack[Len(stack)]
current == top.list[top.pos]

\* the innermost call with text appended to its outline and its loop advanced
Appended(frames, text) ==
    [frames EXCEPT ![Len(frames)] =
        [@ EXCEPT !.outline = @ \o text, !.pos = @ + 1]]

\* an entry of `done`: the segment, the fragment appended for it, the depth
\* of the call that appended it (1 the outermost), the message being
\* formatted (idx), whether the captioning client was called for it and what
\* the client did, and for a Reply with a chain the outline awaited
Entry(seg, frag, depth, called, out, inner) ==
    [seg |-> seg, frag |-> frag, depth |-> depth, msg |-> idx,
     called |-> called, out |-> out, inner |-> inner]

\* lines 70-78
FormatEnter ==
    /\ pc = "format"
    /\ IF history_messages = <<>>
       THEN /\ pc' = "returned"
            /\ result' = <<>>
            /\ UNCHANGED hist
       ELSE /\ pc' = "loop"
            /\ hist' = Truncate(history_messages, max_messages)
            /\ UNCHANGED result
    /\ UNCHANGED <<inputs, idx, formatted_text, message_content, stack, calls,
                   inflight, exc, done, rendered>>

\* lines 80-99: the head of one message and the call of outline_message_list
FormatMessage ==
    /\ pc = "loop"
    /\ idx < Len(hist)
    /\ IF HasContent(hist[idx + 1])
       THEN /\ pc' = "outline"
            /\ stack' = <<[list |-> hist[idx + 1].message.segs, pos |-> 1,
                           outline |-> <<>>]>>
            /\ UNCHANGED message_content
       ELSE /\ pc' = "append"
            /\ message_content' = <<>>
            /\ UNCHANGED stack
    /\ UNCHANGED <<inputs, format_locals, calls, inflight, result, exc, done>>

\* lines 102-111
FormatAppend ==
    /\ pc = "append"
    /\ formatted_text' =
          formatted_text \o message_text(hist[idx + 1], message_content)
             \o (IF NeedsDivider(idx, Len(hist)) THEN <<divider>> ELSE <<>>)
    /\ rendered' = Append(rendered, hist[idx + 1])
    /\ idx' = idx + 1
    /\ pc' = "loop"
    /\ UNCHANGED <<inputs, hist, message_content, stack, calls, inflight,
                   result, exc, done>>

\* line 113
FormatReturn ==
    /\ pc = "loop"
    /\ idx = Len(hist)
    /\ result' = formatted_text
    /\ pc' = "returned"
    /\ UNCHANGED <<inputs, format_locals, message_content, stack, calls,
                   inflight, exc, done>>

\* lines 132-241 for a segment that awaits nothing: its fragment is appended,
\* or an exception leaves every running call (nothing on the way catches it)
OutlineSegment ==
    /\ pc = "outline"
    /\ top.pos <= Len(top.list)
    /\ LET plan == SegmentPlan(current, module_globals, files) IN
       /\ plan.kind \in {"frag", "raise"}
       /\ IF plan.kind = "frag"
          THEN /\ stack' = Appended(stack, plan.text)
               /\ done' = Append(done, Entry(current, plan.text, Len(stack),
                                             FALSE, NoOutcome, <<>>))
               /\ UNCHANGED <<pc, exc>>
          ELSE /\ pc' = "raised"
               /\ exc' = [type |-> "AttributeError", seg |-> current]
               /\ stack' = <<>>
               /\ UNCHANGED done
    /\ UNCHANGED <<inputs, format_locals, message_content, calls, inflight, result>>

\* line 153, the call
CaptionCall ==
    /\ pc = "outline"
    /\ top.pos <= Len(top.list)
    /\ LET plan == SegmentPlan(current, module_globals, files) IN
       /\ plan.kind = "call"
       /\ calls' = Append(calls, plan.arg)
    /\ inflight' = inflight + 1
    /\ pc' = "caption"
    /\ UNCHANGED <<inputs, format_locals, message_content, stack, result, exc, done>>

\* lines 153-162, the call settled
CaptionSettle ==
    /\ pc = "caption"
    /\ \E out \in generate_image_caption(calls[Len(calls)]) :
          /\ stack' = Appended(stack, CaptionFragment(out))
          /\ done' = Append(done, Entry(current, CaptionFragment(out), Len(stack),
                                        TRUE, out, <<>>))
    /\ inflight' = inflight - 1
    /\ pc' = "outline"
    /\ UNCHANGED <<inputs, format_locals, message_content, calls, result, exc>>

\* line 230, the call
ReplyEnter ==
    /\ pc = "outline"
    /\ top.pos <= Len(top.list)
    /\ SegmentPlan(current, module_globals, files).kind = "recurse"
    /\ stack' = Append(stack, [list |-> current.chain, pos |-> 1, outline |-> <<>>])
    /\ UNCHANGED <<inputs, format_locals, message_content, calls, inflight,
                   result, exc, done, pc>>

\* line 242 of a call made at line 230, and line 231 of its caller
ReplyReturn ==
    /\ pc = "outline"
    /\ top.pos > Len(top.list)
    /\ Len(stack) > 1
    /\ LET caller == SubSeq(stack, 1, Len(stack) - 1)
           i == caller[Len(caller)].list[caller[Len(caller)].pos]
           frag == ReplyChainFragment(i, top.outline)
       IN  /\ stack' = Appended(caller, frag)
           /\ done' = Append(done, Entry(i, frag, Len(caller), FALSE, NoOutcome,
                                         top.outline))
    /\ UNCHANGED <<inputs, format_locals, message_content, calls, inflight,
                   result, exc, pc>>

\* line 242 of the outermost call: back in line 99, or at the caller
OutlineReturn ==
    /\ pc = "outline"
    /\ top.pos > Len(top.list)
    /\ Len(stack) = 1
    /\ stack' = <<>>
    /\ IF entry = "format"
       THEN /\ message_content' = top.outline
            /\ pc' = "append"
            /\ UNCHANGED result
       ELSE /\ result' = top.outline
            /\ pc' = "returned"
            /\ UNCHANGED message_content
    /\ UNCHANGED <<inputs, format_locals, calls, inflight, exc, done>>

Next ==
    \/ FormatEnter
    \/ FormatMessage
    \/ FormatAppend
    \/ FormatReturn
    \/ OutlineSegment
    \/ CaptionCall
    \/ CaptionSettle
    \/ ReplyEnter
    \/ ReplyReturn
    \/ OutlineReturn

Spec == Init /\ [][Next]_vars

\* ------------------------------------------------------ reading the history
Last(x) == x[Len(x)]

RECURSIVE Concat(_)
Concat(texts) == IF texts = <<>> THEN <<>> ELSE Head(texts) \o Concat(Tail(texts))

Count(x, piece) == Cardinality({p \in 1..Len(x) : x[p] = piece})

\* the entries of `done` before the k-th that were appended by the call of
\* depth d that was running, for message m, just before the k-th entry was
\* appended: those of depth d and message m after the last entry of message
\* m with a smaller depth
FrameStart(k, d, m) ==
    LET shallower == {j \in 1..(k - 1) : done[j].msg = m /\ done[j].depth < d}
    IN  IF shallower = {} THEN 1
        ELSE (CHOOSE j \in shallower : \A h \in shallower : h <= j) + 1

FrameEntries(k, d, m) ==
    LET start == FrameStart(k, d, m)
        picked == {j \in start..(k - 1) : done[j].msg = m /\ done[j].depth = d}
        \* the picked indices in increasing order
        nth[n \in 1..Cardinality(picked)] ==
            CHOOSE j \in picked : Cardinality({h \in picked : h < j}) = n - 1
    IN  [n \in 1..Cardinality(picked) |-> done[nth[n]]]

Frags(es) == Concat([n \in 1..Len(es) |-> es[n].frag])
Segs(es) == [n \in 1..Len(es) |-> es[n].seg]

\* every running call has appended exactly the fragments of the segments it
\* has gone past, in their order and with nothing between them
FramesConsistent ==
    \A d \in 1..Len(stack) :
        LET es == FrameEntries(Len(done) + 1, d, idx) IN
        /\ Segs(es) = SubSeq(stack[d].list, 1, stack[d].pos - 1)
        /\ stack[d].outline = Frags(es)

\* ================================================================== claims
Formatted == entry = "format" /\ pc = "returned"
Outlined == entry = "outline" /\ pc = "returned"

Min(a, b) == IF a < b THEN a ELSE b

\* the last k elements of x
LastN(x, k) == SubSeq(x, Len(x) - k + 1, Len(x))

\* C1: when format_history_for_llm has returned, the messages it rendered
\* are exactly the last min(len(H), max) messages of H, in their order, for
\* every max >= 0 (max = 0 included).
C1_LastMaxRendered ==
    Formatted =>
        rendered = LastN(history_messages,
                         Min(Len(history_messages), max_messages))

\* the pieces of a text that are block labels or separators, in order
Skeleton(text) ==
    LET marks == {p \in 1..Len(text) :
                     text[p] \in {L_SENDER, L_TIME, L_CONTENT, divider}}
        nth[n \in 1..Cardinality(marks)] ==
            CHOOSE p \in marks : Cardinality({q \in marks : q < p}) = n - 1
    IN  [n \in 1..Cardinality(marks) |-> text[nth[n]]]

\* n blocks of three lines with one separator between consecutive blocks
RECURSIVE Blocks(_)
Blocks(n) ==
    IF n = 0 THEN <<>>
    ELSE IF n = 1 THEN <<L_SENDER, L_TIME, L_CONTENT>>
    ELSE <<L_SENDER, L_TIME, L_CONTENT, divider>> \o Blocks(n - 1)

\* C2: the text format_history_for_llm returns for n retained messages is n
\* blocks (sender line, time line, content line) with the separator exactly
\* once between consecutive blocks, never before the first block nor after
\* the last; it is empty for an empty history.
C2_BlocksAndSeparators ==
    Formatted =>
        /\ Skeleton(result) = Blocks(Len(hist))
        /\ Count(result, divider) = (IF hist = <<>> THEN 0 ELSE Len(hist) - 1)
        /\ (history_messages = <<>> => result = <<>>)
        /\ (result # <<>> => result[1] = L_SENDER /\ Last(result) # divider)

C2_Witness ==
    /\ Formatted
    /\ Len(hist) >= 2
    /\ Count(result, divider) = Len(hist) - 1
    /\ rendered = hist

\* the reference the Image branch works with: file, else url
ChosenRef(seg) == IF seg.file.t = "str" /\ seg.file.c # <<>> THEN seg.file ELSE seg.url

\* an Image segment whose chosen reference starts with file:/// and names a
\* path that does not exist
MissingFileImage(seg) ==
    /\ seg.cls = "Image"
    /\ ChosenRef(seg).t = "str"
    /\ Len(ChosenRef(seg).c) >= 8
    /\ \A p \in 1..8 : ChosenRef(seg).c[p] = FILE_SCHEME[p]
    /\ [p \in 1..(Len(ChosenRef(seg).c) - 8) |-> ChosenRef(seg).c[p + 8]] \notin files

\* C3: an Image segment whose chosen reference (file, else url) starts with
\* file:/// and whose stripped path does not exist contributes exactly
\* "[图片: 文件不存在]", the captioning client is not called for it, no
\* exception leaves the call because of it, and the loop goes on.
C3_MissingFileShortCircuits ==
    /\ \A k \in 1..Len(done) :
          MissingFileImage(done[k].seg) =>
              /\ done[k].frag = IMAGE_MISSING
              /\ ~done[k].called
    /\ (pc = "caption" => ~MissingFileImage(current))
    /\ (pc = "raised" => ~MissingFileImage(exc.seg))
    /\ FramesConsistent

\* a missing-file image was outlined and the segment after it as well
C3_Witness ==
    \E k \in 1..Len(done) :
        /\ MissingFileImage(done[k].seg)
        /\ done[k].frag = IMAGE_MISSING
        /\ k < Len(done)
        /\ done[k + 1].depth = done[k].depth
        /\ calls = <<>>

\* C4: a captioning call that raises contributes exactly one "[图片]" and the
\* exception goes no further; a non-empty caption c contributes
\* "[图片: c]", an empty or absent caption "[图片]"; the loop goes on.
C4_CaptionFaultContained ==
    /\ \A k \in 1..Len(done) :
          done[k].called =>
              done[k].frag =
                 IF /\ ~done[k].out.raised
                    /\ done[k].out.caption.t = "str"
                    /\ done[k].out.caption.s # ""
                 THEN <<"[", "TuPian: ", done[k].out.caption.s, "]">>
                 ELSE <<"[", "TuPian", "]">>
    /\ (pc = "raised" => exc.seg.cls # "Image")
    /\ Cardinality({k \in 1..Len(done) : done[k].called}) + inflight = Len(calls)
    /\ FramesConsistent

\* a captioning call raised, "[图片]" was appended and the next segment of
\* the same list was outlined after it
C4_Witness ==
    \E k \in 1..Len(done) :
        /\ done[k].called
        /\ done[k].out.raised
        /\ done[k].frag = IMAGE_BARE
        /\ k < Len(done)
        /\ done[k + 1].depth = done[k].depth
        /\ pc = "returned"

Bracketed(frag) == frag # <<>> /\ Head(frag) = "[" /\ Last(frag) = "]"

\* a segment no check of the dispatch recognises
Unrecognised(seg) ==
    /\ seg.cls \notin CoreClasses
    /\ ~(seg.cls \in OptionalClasses /\ seg.cls \in module_globals)
    /\ ~(seg.type.t = "str" /\ lower(seg.type.s) \in DOMAIN type_mapping)

\* C5: outline_message_list never raises, whatever attributes a segment has
\* or lacks (a type attribute included); every segment other than Plain
\* contributes a non-empty fragment that starts with "[" and ends with "]",
\* and an unrecognised segment with type tag t contributes "[t]".
C5_TotalMapping ==
    /\ pc # "raised"
    /\ \A k \in 1..Len(done) :
          /\ done[k].seg.cls # "Plain" => Bracketed(done[k].frag)
          /\ (Unrecognised(done[k].seg) /\ done[k].seg.type.t = "str"
                => done[k].frag = <<"[">> \o Lit(done[k].seg.type.s) \o <<"]">>)

\* an Image segment with a reference that is there: a non-empty file or url
\* that, if it starts with file:///, names an existing path
UsableImage(seg) ==
    /\ seg.cls = "Image"
    /\ ChosenRef(seg).t = "str"
    /\ ChosenRef(seg).c # <<>>
    /\ ~MissingFileImage(seg)

\* the reference the captioning client is to be given for such a segment
Resolved(seg) ==
    LET c == ChosenRef(seg).c IN
    IF Len(c) >= 8 /\ (\A p \in 1..8 : c[p] = FILE_SCHEME[p])
    THEN [p \in 1..(Len(c) - 8) |-> c[p + 8]] ELSE c

\* the captioning calls a segment list asks for, depth first in input order
RECURSIVE DepthFirstCalls(_)
DepthFirstCalls(list) ==
    IF list = <<>> THEN <<>>
    ELSE LET i == Head(list) IN
         (IF UsableImage(i) THEN <<Resolved(i)>>
          ELSE IF i.cls = "Reply" THEN DepthFirstCalls(i.chain)
          ELSE <<>>) \o DepthFirstCalls(Tail(list))

ExpectedCalls ==
    IF entry = "outline" THEN DepthFirstCalls(message_list)
    ELSE Concat([m \in 1..Len(hist) |->
                    IF hist[m].message.t = "list"
                    THEN DepthFirstCalls(hist[m].message.segs) ELSE <<>>])

IsPrefix(a, b) == Len(a) <= Len(b) /\ SubSeq(b, 1, Len(a)) = a

\* C6: processing is sequential.  At most one captioning call is in flight,
\* and only while the loop waits for it; every running call has appended
\* the fragments of the segments it has passed, in input order, with no
\* separator; the captioning client is called once per Image segment that
\* has a usable reference, nested ones included, depth first in input order
\* (the calls made so far are a prefix of that list, all of it on return).
C6_Sequential ==
    /\ inflight \in {0, 1}
    /\ (inflight = 1 <=> pc = "caption")
    /\ FramesConsistent
    /\ IsPrefix(calls, ExpectedCalls)
    /\ (pc = "returned" => calls = ExpectedCalls)
    /\ (Outlined =>
          LET es == FrameEntries(Len(done) + 1, 1, 0) IN
          Segs(es) = message_list /\ result = Frags(es))

\* a call returned after two captioning calls, the first for an image
\* nested in a quoted chain
C6_Witness ==
    /\ Outlined
    /\ Len(calls) >= 2
    /\ \E k \in 1..Len(done) : done[k].called /\ done[k].depth >= 2
    /\ \E k \in 1..Len(done) : done[k].called /\ done[k].depth = 1

\* C7: nothing aborts format_history_for_llm (but a recursion-depth
\* violation, which lists nested at most MaxNest deep do not cause): the
\* call returns, with every retained message rendered.
C7_NeverAborts ==
    /\ (entry = "format" => pc # "raised")
    /\ (Formatted => rendered = hist)

\* "分享:", "位置:", "音乐:"
KindLabel(cls) ==
    IF cls = "Share" THEN "FenXiang:"
    ELSE IF cls = "Location" THEN "WeiZhi:" ELSE "YinYue:"

\* "[<kind>:t(c)]" when c is there, "[<kind>:t]" when it is not
TitleParenContent(seg) ==
    <<"[", KindLabel(seg.cls)>> \o Lit(seg.title.s)
        \o (IF seg.content.t = "str" /\ seg.content.s # ""
            THEN <<"(", seg.content.s, ")">> ELSE <<>>)
        \o <<"]">>

\* C8 as stated: Share, Location and Music all contribute "[<kind>:t(c)]"
\* when the content is there and "[<kind>:t]" when it is not.
C8_SameShape ==
    \A k \in 1..Len(done) :
        done[k].seg.cls \in {"Share", "Location", "Music"} =>
            done[k].frag = TitleParenContent(done[k].seg)

\* C8 amended: Location and Music contribute "[<kind>:t(c)]" when the content
\* is there and "[<kind>:t]" when it is not; Share contributes
\* "[分享:《t》c]" when the content is there and "[分享:《t》]" when it is not.
C8_ShareDiffers ==
    \A k \in 1..Len(done) :
        /\ done[k].seg.cls \in {"Location", "Music"} =>
              done[k].frag = TitleParenContent(done[k].seg)
        /\ done[k].seg.cls = "Share" =>
              done[k].frag =
                 <<"[", "FenXiang:", "<<">> \o Lit(done[k].seg.title.s) \o <<">>">>
                    \o (IF done[k].seg.content.t = "str" THEN Lit(done[k].seg.content.s)
                        ELSE <<>>)
                    \o <<"]">>

\* a Share with title t and content c was outlined as "[分享:《t》c]", and
\* the call returned
C8_Witness ==
    \E k \in 1..Len(done) :
        /\ done[k].seg.cls = "Share"
        /\ done[k].seg.content = PyStr("c")
        /\ done[k].frag = <<"[", "FenXiang:", "<<", "t", ">>", "c", "]">>
        /\ pc = "returned"

\* a segment the dispatch takes for a Json component: by its type tag, or
\* by its class where the module knows the class
JsonPayload(seg) ==
    /\ seg.cls \notin CoreClasses
    /\ \/ seg.type.t = "str" /\ lower(seg.type.s) = "json"
       \/ seg.type.t = "absent" /\ seg.cls = "Json" /\ "Json" \in module_globals

\* C9: a Json segment whose data is no string, is no JSON, or is JSON for
\* something other than an object contributes "[JSON消息]"; an object with
\* key prompt contributes "[JSON卡片:<prompt>]" (with key app as well or
\* not), else one with key app "[小程序:<app>]", else "[JSON消息]"; no
\* exception leaves the call because of a Json segment.
C9_JsonFallbacks ==
    /\ \A k \in 1..Len(done) :
          JsonPayload(done[k].seg) =>
             LET d == done[k].seg.data IN
             done[k].frag =
                IF d.t # "str" \/ d.doc.k # "object" THEN <<"[", "JSON XiaoXi", "]">>
                ELSE IF "prompt" \in d.doc.keys
                     THEN <<"[", "JSON KaPian:">> \o Lit(d.doc.prompt.s) \o <<"]">>
                ELSE IF "app" \in d.doc.keys
                     THEN <<"[", "XiaoChengXu:">> \o Lit(d.doc.app.s) \o <<"]">>
                ELSE <<"[", "JSON XiaoXi", "]">>
    /\ (pc = "raised" => ~JsonPayload(exc.seg))

\* a Json segment holding the JSON string "prompt" was outlined as
\* "[JSON消息]", and the call returned
C9_Witness ==
    /\ pc = "returned"
    /\ \E k \in 1..Len(done) :
          /\ JsonPayload(done[k].seg)
          /\ done[k].seg.data.t = "str"
          /\ done[k].seg.data.doc.k = "string"
          /\ done[k].seg.data.doc.chars = <<"p", "r", "o", "m", "p", "t">>
          /\ done[k].frag = JSON_GENERIC

Present(v) == (v.t = "str" /\ v.s # "") \/ (v.t = "int" /\ v.s # "0")

\* "<nickname>(<id>)" when the nickname is there, the bare "<id>" otherwise
SenderLabel(seg) ==
    IF Present(seg.sender_nickname)
    THEN <<seg.sender_nickname.s>> \o <<"(">> \o Lit(seg.sender_id.s) \o <<")">>
    ELSE Lit(seg.sender_id.s)

\* C10: a Reply segment contributes, by first match: with a non-empty quoted
\* chain "[回复(<sender>: <outline of the chain>)]", the inner outline being
\* what outlining the chain's segments appended, in order; else with a
\* non-empty quoted text "[回复(<sender>: <text>)]"; else with a nickname or
\* an id "[回复(<sender>)]"; else "[回复消息]".
C10_ReplyPrecedence ==
    \A k \in 1..Len(done) :
        done[k].seg.cls = "Reply" =>
           LET i == done[k].seg
               inner == FrameEntries(k, done[k].depth + 1, done[k].msg)
           IN  IF i.chain # <<>>
               THEN /\ Segs(inner) = i.chain
                    /\ done[k].frag =
                          <<"[", "HuiFu(">> \o SenderLabel(i) \o <<": ">>
                             \o Frags(inner) \o <<")", "]">>
               ELSE done[k].frag =
                      IF Present(i.message_str)
                      THEN <<"[", "HuiFu(">> \o SenderLabel(i) \o <<": ">>
                              \o <<i.message_str.s>> \o <<")", "]">>
                      ELSE IF Present(i.sender_nickname) \/ Present(i.sender_id)
                           THEN <<"[", "HuiFu(">> \o SenderLabel(i) \o <<")", "]">>
                           ELSE <<"[", "HuiFu XiaoXi", "]">>

\* a Reply with a nickname, a quoted text and a chain holding another Reply
\* was outlined from its chain
C10_Witness ==
    \E k \in 1..Len(done) :
        /\ done[k].seg.cls = "Reply"
        /\ done[k].depth = 1
        /\ Present(done[k].seg.sender_nickname)
        /\ Present(done[k].seg.message_str)
        /\ \E j \in 1..Len(done[k].seg.chain) : done[k].seg.chain[j].cls = "Reply"
        /\ done[k].inner # <<>>
        /\ pc = "returned"

====
